---- MODULE Spec2Model ----
(***************************************************************************)
(* The asynchronous Akinator session client                                *)
(* (src/akinator/async_aki/async_akinator.py) as a state machine.          *)
(*                                                                         *)
(* `self` is the Akinator object.  Every coroutine is cut at its await     *)
(* points: the part up to the network request is one action (the call),    *)
(* the part from the arrival of the response to the return or the raise    *)
(* is another (the response).  Tasks are the callers' coroutines; under    *)
(* Spec one task, the owner, makes all the calls, one after the other.     *)
(***************************************************************************)
EXTENDS Integers, Sequences, FiniteSets, TLC

\* Largest step number the server reports.
MaxStep == 1
\* Number of caller coroutines that hold the same Akinator object.
NumTasks == 2

Tasks == 1..NumTasks

(***************************************************************************)
(* Python values.  An attribute or local is None or holds a value v,       *)
(* written Some(v).  A JSON value of a response document is a tagged       *)
(* tuple: Txt(s) is the string s, Dec(n) the string holding the decimal    *)
(* text of the integer n, Frac(m) the string holding decimal text with a   *)
(* fractional part (m counts tenths: Frac(105) is "10.5"), Junk a string   *)
(* that is no number.  Missing is a key the document does not have.        *)
(***************************************************************************)
None == <<>>
Some(v) == <<v>>
Missing == <<>>
Txt(s) == <<"text", s>>
Dec(n) == <<"dec", n>>
Frac(m) == <<"frac", m>>
Junk == <<"junk">>

NoExc == "none"

\* What resp[...][key] followed by int(), float() or str() raises, if anything.
Raises(conv, w) ==
    IF w = Missing THEN "KeyError"
    ELSE IF conv = "int" /\ w[1] # "dec" THEN "ValueError"
    ELSE IF conv = "float" /\ w[1] \notin {"dec", "frac"} THEN "ValueError"
    ELSE NoExc  \* str() takes any value; "raw" is a plain subscript

\* int(w): the integer a decimal string denotes.
PyInt(w) == w[2]

\* float(w), counted in tenths: "1" is 10 tenths, "10.5" is 105 tenths.
PyFloat(w) == IF w[1] = "dec" THEN 10 * w[2] ELSE w[2]

\* str(w): the text of a JSON string, whatever it holds.
PyStr(w) ==
    IF w[1] = "text" THEN w[2]
    ELSE IF w[1] = "junk" THEN "junk"
    ELSE IF w[1] = "dec" THEN "dec" ELSE "frac"

Convert(conv, w) ==
    IF conv = "int" THEN PyInt(w)
    ELSE IF conv = "float" THEN PyFloat(w)
    ELSE IF conv = "str" THEN PyStr(w)
    ELSE w

\* "{}".format(v) of an attribute that holds an integer, or None.
FmtInt(opt) == IF opt = None THEN Txt("None") ELSE Dec(opt[1])

\* "{}".format(v) of an attribute that holds a string, or None.
FmtStr(opt) == IF opt = None THEN Txt("None") ELSE Txt(opt[1])

(***************************************************************************)
(* The object's attributes.  name, description and picture are not set by  *)
(* __init__: None stands for "attribute not defined" there.                *)
(***************************************************************************)
\* self: the Akinator object.  For each task t, about its current call:
\* pc[t]: where the coroutine is ("idle": no call; "done": the call has
\* returned or raised and the caller holds the outcome); req[t]: the request
\* it issued last; pre[t]: the object as it was when the call started;
\* nreq[t]: how many requests it has issued; arg[t]: its argument;
\* result[t]: how it ended.  active: a start_game call has returned the
\* first question (the session has been opened).  last: the server, session
\* and signature the latest start_game that succeeded left in the object, and
\* the step the latest call of start_game, answer or back that succeeded left
\* there (None before the first start_game that succeeds).
VARIABLES self, pc, req, pre, nreq, arg, result, active, last

vars == <<self, pc, req, pre, nreq, arg, result, active, last>>

\* Akinator.__init__
NewAkinator ==
    [server |-> None, session |-> None, signature |-> None,
     uid |-> None, frontaddr |-> None,
     question |-> None, progression |-> None, step |-> None,
     name |-> None, description |-> None, picture |-> None]

(***************************************************************************)
(* A run of assignments self.f = conv(resp[...]), in program order.  The   *)
(* first one that raises ends the run: the assignments before it stay.     *)
(***************************************************************************)
RECURSIVE Assign(_, _)
Assign(s, todo) ==
    IF todo = <<>> THEN [self |-> s, exc |-> NoExc]
    ELSE LET a == Head(todo)
             e == Raises(a.conv, a.val)
         IN IF e # NoExc THEN [self |-> s, exc |-> e]
            ELSE Assign([s EXCEPT ![a.field] = Some(Convert(a.conv, a.val))],
                        Tail(todo))

\* _update that also takes the session number from an answer's document.
_update_RewritesSession(s, resp, start) ==
    IF start
    THEN Assign(s, << [field |-> "session", conv |-> "int", val |-> resp.session],
                      [field |-> "signature", conv |-> "int", val |-> resp.signature],
                      [field |-> "question", conv |-> "str", val |-> resp.question],
                      [field |-> "progression", conv |-> "float", val |-> resp.progression],
                      [field |-> "step", conv |-> "int", val |-> resp.step] >>)
    ELSE Assign(s, << [field |-> "question", conv |-> "str", val |-> resp.question],
                      [field |-> "progression", conv |-> "float", val |-> resp.progression],
                      [field |-> "step", conv |-> "int", val |-> resp.step],
                      [field |-> "session", conv |-> "int", val |-> resp.step] >>)

\* Akinator._update(resp, start)
_update(s, resp, start) ==
    IF start
    THEN Assign(s, << [field |-> "session", conv |-> "int", val |-> resp.session],
                      [field |-> "signature", conv |-> "int", val |-> resp.signature],
                      [field |-> "question", conv |-> "str", val |-> resp.question],
                      [field |-> "progression", conv |-> "float", val |-> resp.progression],
                      [field |-> "step", conv |-> "int", val |-> resp.step] >>)
    ELSE Assign(s, << [field |-> "question", conv |-> "str", val |-> resp.question],
                      [field |-> "progression", conv |-> "float", val |-> resp.progression],
                      [field |-> "step", conv |-> "int", val |-> resp.step] >>)

(***************************************************************************)
(* The names bound in the module's namespace: lines 25-29 (imports),       *)
(* 32-35 (URL templates), 38 (class).  Evaluating any other name raises    *)
(* NameError.                                                              *)
(***************************************************************************)
ModuleNames ==
    {"ans_to_id", "get_region", "raise_connection_error", "CantGoBackAnyFurther",
     "aiohttp", "asyncio", "re",
     "NEW_SESSION_URL", "ANSWER_URL", "BACK_URL", "WIN_URL", "Akinator"}

\* raise Name(...): the exception the statement ends with.
RaiseNamed(name) == IF name \in ModuleNames THEN name ELSE "NameError"

(***************************************************************************)
(* Collaborators from ..utils.                                             *)
(***************************************************************************)
\* get_region(language): the host of a language, None being the default.
RegionTable ==
    [l \in {None, Some("en"), Some("english"), Some("fr")} |->
        IF l = Some("fr") THEN "srv13.akinator.com" ELSE "srv2.akinator.com"]

get_region(language) ==
    IF language \in DOMAIN RegionTable
    THEN [exc |-> NoExc, host |-> RegionTable[language]]
    ELSE [exc |-> "UnknownRegion", host |-> ""]

\* str.lower() on the answer tokens the model feeds in.
Lower(s) ==
    IF s = "YES" THEN "yes" ELSE IF s = "Y" THEN "y" ELSE IF s = "No" THEN "no"
    ELSE IF s = "IDK" THEN "idk" ELSE IF s = "Probably Not" THEN "probably not"
    ELSE s

\* ans_to_id(ans): the id of a textual answer (the table of answer's docstring).
AnswerIds ==
    [a \in {"yes", "y", "0", "no", "n", "1", "i", "idk", "i dont know", "i don't know", "2",
            "probably", "p", "3", "probably not", "pn", "4"} |->
        IF a \in {"yes", "y", "0"} THEN 0
        ELSE IF a \in {"no", "n", "1"} THEN 1
        ELSE IF a \in {"i", "idk", "i dont know", "i don't know", "2"} THEN 2
        ELSE IF a \in {"probably", "p", "3"} THEN 3
        ELSE 4]

ans_to_id(ans) ==
    IF Lower(ans) \in DOMAIN AnswerIds
    THEN [exc |-> NoExc, id |-> AnswerIds[Lower(ans)]]
    ELSE [exc |-> "InvalidAnswer", id |-> 0]

\* raise_connection_error(completion): always raises, carrying the server's code.
raise_connection_error(completion) == [exc |-> "ServerRejected", code |-> completion]

(***************************************************************************)
(* Requests.  A request is the URL template and the values formatted into  *)
(* it; Absent marks a placeholder the template does not have.              *)
(***************************************************************************)
Absent == <<>>

Request(url, server, a, b, step, answer) ==
    [url |-> url, server |-> server, session |-> a, signature |-> b,
     step |-> step, answer |-> answer]

\* The page _get_session_info reads (line 74).
GAME_PAGE == Request("GAME_PAGE", Txt("en.akinator.com"), Absent, Absent, Absent, Absent)

\* NEW_SESSION_URL.format(self.server, self.uid, self.frontaddr): the two
\* identity tokens travel in the session and signature places of the record.
NEW_SESSION_URL(s) ==
    Request("NEW_SESSION_URL", FmtStr(s.server), FmtStr(s.uid), FmtStr(s.frontaddr),
            Absent, Absent)

\* ANSWER_URL.format(self.server, self.session, self.signature, self.step, ans)
ANSWER_URL(s, ans) ==
    Request("ANSWER_URL", FmtStr(s.server), FmtInt(s.session), FmtInt(s.signature),
            FmtInt(s.step), Dec(ans))

\* BACK_URL formatted with the step to go back to instead of the current one.
BACK_URL_SendsTarget(s) ==
    Request("BACK_URL", FmtStr(s.server), FmtInt(s.session), FmtInt(s.signature),
            IF s.step = None THEN FmtInt(s.step) ELSE Dec(s.step[1] - 1), Dec(-1))

\* BACK_URL.format(self.server, self.session, self.signature, self.step)
BACK_URL(s) ==
    Request("BACK_URL", FmtStr(s.server), FmtInt(s.session), FmtInt(s.signature),
            FmtInt(s.step), Dec(-1))

\* WIN_URL.format(self.server, self.session, self.signature, self.step)
WIN_URL(s) ==
    Request("WIN_URL", FmtStr(s.server), FmtInt(s.session), FmtInt(s.signature),
            FmtInt(s.step), Absent)

NoRequest == Request("none", Absent, Absent, Absent, Absent, Absent)


(***************************************************************************)
(* The network: what a request can come back with.  A response document    *)
(* is flattened: session and signature are parameters.identification.*,    *)
(* question, progression and step are parameters.step_information.* (new   *)
(* session) or parameters.* (answer, back), elements is the list of        *)
(* parameters.elements[i].element.  A transport failure is an exception    *)
(* out of session.get or w.json().                                         *)
(***************************************************************************)
Document(completion, a, b, q, p, st, elems) ==
    [status |-> "document", completion |-> completion, session |-> a, signature |-> b,
     question |-> q, progression |-> p, step |-> st, elements |-> elems]

TransportFailure ==
    [status |-> "failure", completion |-> Missing, session |-> Missing,
     signature |-> Missing, question |-> Missing, progression |-> Missing,
     step |-> Missing, elements |-> <<>>]

NoResponse ==
    [status |-> "none", completion |-> Missing, session |-> Missing,
     signature |-> Missing, question |-> Missing, progression |-> Missing,
     step |-> Missing, elements |-> <<>>]

OK == Txt("OK")
Rejections == {Txt("KO - TIMEOUT"), Txt("KO - TECHNICAL ERROR")}

QuestionFields == {Txt("Is it a human?"), Txt("Is it male?"), Missing}
ProgressionFields == {Dec(0), Frac(105), Junk, Missing}
StepFields == {Dec(n) : n \in -1..MaxStep} \cup {Junk, Missing}
SessionFields == {Dec(42), Dec(43), Junk, Missing}
SignatureFields == {Dec(99), Junk, Missing}

\* The client reads the fields f of a document in order and stops at the
\* first one it cannot convert: what follows that one is never read, and is
\* left out of the documents the model feeds in.
InReadingOrder(f) ==
    \A i \in DOMAIN f : \A j \in DOMAIN f :
        (i < j /\ Raises(f[i][1], f[i][2]) # NoExc) => f[j][2] = Missing

\* A rejection, or a document without completion, carries no parameters.
BareDocuments ==
    {Document(c, Missing, Missing, Missing, Missing, Missing, <<>>) :
        c \in Rejections \cup {Missing}}

NewSessionResponses ==
    {d \in {Document(OK, a, b, q, p, st, <<>>) :
              a \in SessionFields, b \in SignatureFields, q \in QuestionFields,
              p \in ProgressionFields, st \in StepFields} :
        InReadingOrder(<< <<"int", d.session>>, <<"int", d.signature>>,
                          <<"str", d.question>>, <<"float", d.progression>>,
                          <<"int", d.step>> >>)}
    \cup BareDocuments \cup {TransportFailure}

AnswerResponses ==
    {d \in {Document(OK, Missing, Missing, q, p, st, <<>>) :
              q \in QuestionFields, p \in ProgressionFields, st \in StepFields} :
        InReadingOrder(<< <<"str", d.question>>, <<"float", d.progression>>,
                          <<"int", d.step>> >>)}
    \cup BareDocuments \cup {TransportFailure}

\* A candidate of the guess list; ranking is a field the client does not store.
Element(n, d, pic) ==
    [name |-> n, description |-> d, absolute_picture_path |-> pic, ranking |-> Txt("1")]

Turing == Element(Txt("Alan Turing"), Txt("Mathematician"), Txt("http://turing"))
Lovelace == Element(Txt("Ada Lovelace"), Txt("Programmer"), Missing)

ElementLists == { <<>>, <<Turing>>, <<Lovelace, Turing>>, <<Turing, Lovelace>> }

WinResponses ==
    {Document(OK, Missing, Missing, Missing, Missing, Missing, e) : e \in ElementLists}
    \cup BareDocuments \cup {TransportFailure}

\* The page en.akinator.com/game: not fetched, fetched without the two
\* variables, or fetched with them.
GamePages ==
    {[status |-> "failure", uid |-> "", frontaddr |-> ""],
     [status |-> "nomatch", uid |-> "", frontaddr |-> ""],
     [status |-> "match", uid |-> "U1", frontaddr |-> "F1"]}

\* The arguments callers pass.
Languages == {None, Some("fr"), Some("xx")}
IntAnswers == -1..5
StrAnswers == {"yes", "Y", "Probably Not", "maybe"}

(***************************************************************************)
(* The state machine.                                                      *)
(***************************************************************************)
Outcome(op, exc, code, ret, resp) ==
    [op |-> op, exc |-> exc, code |-> code, ret |-> ret, resp |-> resp]

NoOutcome == Outcome("none", NoExc, Missing, None, NoResponse)

Init ==
    /\ self = NewAkinator
    /\ pc = [t \in Tasks |-> "idle"]
    /\ req = [t \in Tasks |-> NoRequest]
    /\ pre = [t \in Tasks |-> None]
    /\ nreq = [t \in Tasks |-> 0]
    /\ arg = [t \in Tasks |-> None]
    /\ result = [t \in Tasks |-> NoOutcome]
    /\ active = FALSE
    /\ last = None

\* What a start_game that succeeds leaves in the object s (lines 103, 111).
Started(s) ==
    Some([server |-> s.server, session |-> s.session, signature |-> s.signature,
          step |-> s.step])

\* What an answer or a back that succeeds leaves in the object s (lines 148,
\* 167): a new step, within the session opened before.
Stepped(l, s) == IF l = None THEN None ELSE Some([l[1] EXCEPT !.step = s.step])

\* Task t's call with argument a begins: the object as it is now is remembered.
Enter(t, a) ==
    /\ pre' = [pre EXCEPT ![t] = Some(self)]
    /\ arg' = [arg EXCEPT ![t] = a]
    /\ result' = [result EXCEPT ![t] = NoOutcome]

\* Task t's coroutine issues r, its n-th request, and suspends at label l.
Send(t, l, r, n) ==
    /\ pc' = [pc EXCEPT ![t] = l]
    /\ req' = [req EXCEPT ![t] = r]
    /\ nreq' = [nreq EXCEPT ![t] = n]

\* Task t's call with argument a raises exc before it has issued any request.
Refuse(t, op, exc, a) ==
    /\ pc' = [pc EXCEPT ![t] = "done"]
    /\ req' = [req EXCEPT ![t] = NoRequest]
    /\ nreq' = [nreq EXCEPT ![t] = 0]
    /\ pre' = [pre EXCEPT ![t] = Some(self)]
    /\ arg' = [arg EXCEPT ![t] = a]
    /\ result' = [result EXCEPT ![t] = Outcome(op, exc, Missing, None, NoResponse)]
    /\ UNCHANGED <<self, active, last>>

\* Task t's call in flight returns ret (exc = NoExc) or raises exc, leaving
\* the object as s.
Finish(t, op, s, exc, code, ret, resp) ==
    /\ self' = s
    /\ pc' = [pc EXCEPT ![t] = "done"]
    /\ result' = [result EXCEPT ![t] = Outcome(op, exc, code, ret, resp)]
    /\ UNCHANGED <<req, pre, nreq, arg>>

\* The caller of task t lets go of the outcome of its call.
Return(t) ==
    /\ pc[t] = "done"
    /\ pc' = [pc EXCEPT ![t] = "idle"]
    /\ req' = [req EXCEPT ![t] = NoRequest]
    /\ pre' = [pre EXCEPT ![t] = None]
    /\ nreq' = [nreq EXCEPT ![t] = 0]
    /\ arg' = [arg EXCEPT ![t] = None]
    /\ result' = [result EXCEPT ![t] = NoOutcome]
    /\ UNCHANGED <<self, active, last>>

\* StepResult with the question cleared when the server rejects the request.
StepResult_ClearsOnRejection(s, resp) ==
    IF resp.status = "failure" THEN [self |-> s, exc |-> "TransportFailure", code |-> Missing]
    ELSE IF resp.completion = Missing THEN [self |-> s, exc |-> "KeyError", code |-> Missing]
    ELSE IF resp.completion = OK
         THEN LET u == _update(s, resp, FALSE)
              IN [self |-> u.self, exc |-> u.exc, code |-> Missing]
         ELSE LET e == raise_connection_error(resp.completion)
              IN [self |-> [s EXCEPT !.question = None], exc |-> e.exc, code |-> e.code]

\* The part of answer and back after resp = await w.json() (lines 147-151,
\* 166-170).
StepResult(s, resp) ==
    IF resp.status = "failure" THEN [self |-> s, exc |-> "TransportFailure", code |-> Missing]
    ELSE IF resp.completion = Missing THEN [self |-> s, exc |-> "KeyError", code |-> Missing]
    ELSE IF resp.completion = OK
         THEN LET u == _update(s, resp, FALSE)
              IN [self |-> u.self, exc |-> u.exc, code |-> Missing]
         ELSE LET e == raise_connection_error(resp.completion)
              IN [self |-> s, exc |-> e.exc, code |-> e.code]

\* AnswerId that numbers the integer answers from 1.
AnswerId_OneBased(ans) ==
    IF ans.type = "int"
    THEN IF ans.v >= 0 /\ ans.v <= 4
         THEN [exc |-> NoExc, id |-> ans.v + 1]
         ELSE [exc |-> RaiseNamed("InvalidAnswerError"), id |-> 0]
    ELSE ans_to_id(ans.v)

\* AnswerId without the range check on integers.
AnswerId_NoRangeCheck(ans) ==
    IF ans.type = "int"
    THEN [exc |-> NoExc, id |-> ans.v]
    ELSE ans_to_id(ans.v)

\* answer, lines 127-141: the check of the answer; the id to send, or the
\* exception.
AnswerId(ans) ==
    IF ans.type = "int"
    THEN IF ans.v >= 0 /\ ans.v <= 4
         THEN [exc |-> NoExc, id |-> ans.v]
         ELSE [exc |-> RaiseNamed("InvalidAnswerError"), id |-> 0]
    ELSE ans_to_id(ans.v)

\* answer that waits until no other call on the object is in flight.
AnswerCall_Locked(t, ans) ==
    /\ pc[t] = "idle"
    /\ \A u \in Tasks \ {t} : pc[u] \in {"idle", "done"}
    /\ LET a == AnswerId(ans)
       IN IF a.exc = NoExc
          THEN /\ Enter(t, Some(ans))
               /\ Send(t, "answer", ANSWER_URL(self, a.id), 1)
               /\ UNCHANGED <<self, active, last>>
          ELSE Refuse(t, "answer", a.exc, Some(ans))

\* answer, lines 127-145: the answer is checked, the request goes out.
AnswerCall(t, ans) ==
    /\ pc[t] = "idle"
    /\ LET a == AnswerId(ans)
       IN IF a.exc = NoExc
          THEN /\ Enter(t, Some(ans))
               /\ Send(t, "answer", ANSWER_URL(self, a.id), 1)
               /\ UNCHANGED <<self, active, last>>
          ELSE Refuse(t, "answer", a.exc, Some(ans))

\* answer, lines 145-151.
AnswerResponse(t, resp) ==
    /\ pc[t] = "answer"
    /\ LET r == StepResult(self, resp)
       IN /\ Finish(t, "answer", r.self, r.exc, r.code,
                    IF r.exc = NoExc THEN r.self.question ELSE None, resp)
          /\ last' = IF r.exc = NoExc THEN Stepped(last, r.self) ELSE last
    /\ UNCHANGED active

\* The guard of back off by one.
AtFirstQuestion_OffByOne(s) == s.step = Some(1)

\* back, line 159: the guard.
AtFirstQuestion(s) == s.step = Some(0)

\* back, lines 159-164.
BackCall(t) ==
    /\ pc[t] = "idle"
    /\ IF AtFirstQuestion(self)
       THEN Refuse(t, "back", RaiseNamed("CantGoBackAnyFurther"), None)
       ELSE /\ Enter(t, None)
            /\ Send(t, "back", BACK_URL(self), 1)
            /\ UNCHANGED <<self, active, last>>

\* back, lines 164-170.
BackResponse(t, resp) ==
    /\ pc[t] = "back"
    /\ LET r == StepResult(self, resp)
       IN /\ Finish(t, "back", r.self, r.exc, r.code,
                    IF r.exc = NoExc THEN r.self.question ELSE None, resp)
          /\ last' = IF r.exc = NoExc THEN Stepped(last, r.self) ELSE last
    /\ UNCHANGED active

\* win, lines 185-187.  A caller may guess again straight after a guess.
WinCall(t) ==
    /\ pc[t] = "idle" \/ (pc[t] = "done" /\ result[t].op = "win")
    /\ Enter(t, None)
    /\ Send(t, "win", WIN_URL(self), 1)
    /\ UNCHANGED <<self, active, last>>

\* WinResult that takes the last candidate of the list.
WinResult_TakesLast(s, resp) ==
    IF resp.status = "failure"
    THEN [self |-> s, exc |-> "TransportFailure", code |-> Missing, ret |-> None]
    ELSE IF resp.completion = Missing
    THEN [self |-> s, exc |-> "KeyError", code |-> Missing, ret |-> None]
    ELSE IF resp.completion = OK
    THEN IF resp.elements = <<>>
         THEN [self |-> s, exc |-> "IndexError", code |-> Missing, ret |-> None]
         ELSE LET guess == resp.elements[Len(resp.elements)]
                  u == Assign(s, << [field |-> "name", conv |-> "raw", val |-> guess.name],
                                    [field |-> "description", conv |-> "raw",
                                     val |-> guess.description],
                                    [field |-> "picture", conv |-> "raw",
                                     val |-> guess.absolute_picture_path] >>)
              IN [self |-> u.self, exc |-> u.exc, code |-> Missing,
                  ret |-> IF u.exc = NoExc THEN Some(guess) ELSE None]
    ELSE LET e == raise_connection_error(resp.completion)
         IN [self |-> s, exc |-> e.exc, code |-> e.code, ret |-> None]

\* WinResult that moves on to the next step once the guess is stored.
WinResult_AdvancesStep(s, resp) ==
    IF resp.status = "failure"
    THEN [self |-> s, exc |-> "TransportFailure", code |-> Missing, ret |-> None]
    ELSE IF resp.completion = Missing
    THEN [self |-> s, exc |-> "KeyError", code |-> Missing, ret |-> None]
    ELSE IF resp.completion = OK
    THEN IF resp.elements = <<>>
         THEN [self |-> s, exc |-> "IndexError", code |-> Missing, ret |-> None]
         ELSE LET guess == resp.elements[1]
                  u == Assign(s, << [field |-> "name", conv |-> "raw", val |-> guess.name],
                                    [field |-> "description", conv |-> "raw",
                                     val |-> guess.description],
                                    [field |-> "picture", conv |-> "raw",
                                     val |-> guess.absolute_picture_path] >>)
              IN [self |-> IF u.exc = NoExc /\ s.step # None
                           THEN [u.self EXCEPT !.step = Some(s.step[1] + 1)]
                           ELSE u.self,
                  exc |-> u.exc, code |-> Missing,
                  ret |-> IF u.exc = NoExc THEN Some(guess) ELSE None]
    ELSE LET e == raise_connection_error(resp.completion)
         IN [self |-> s, exc |-> e.exc, code |-> e.code, ret |-> None]

\* The part of win after resp = await w.json() (lines 189-196).
WinResult(s, resp) ==
    IF resp.status = "failure"
    THEN [self |-> s, exc |-> "TransportFailure", code |-> Missing, ret |-> None]
    ELSE IF resp.completion = Missing
    THEN [self |-> s, exc |-> "KeyError", code |-> Missing, ret |-> None]
    ELSE IF resp.completion = OK
    THEN IF resp.elements = <<>>
         THEN [self |-> s, exc |-> "IndexError", code |-> Missing, ret |-> None]
         ELSE LET guess == resp.elements[1]
                  u == Assign(s, << [field |-> "name", conv |-> "raw", val |-> guess.name],
                                    [field |-> "description", conv |-> "raw",
                                     val |-> guess.description],
                                    [field |-> "picture", conv |-> "raw",
                                     val |-> guess.absolute_picture_path] >>)
              IN [self |-> u.self, exc |-> u.exc, code |-> Missing,
                  ret |-> IF u.exc = NoExc THEN Some(guess) ELSE None]
    ELSE LET e == raise_connection_error(resp.completion)
         IN [self |-> s, exc |-> e.exc, code |-> e.code, ret |-> None]

\* win, lines 187-196.
WinResponse(t, resp) ==
    /\ pc[t] = "win"
    /\ LET r == WinResult(self, resp)
       IN Finish(t, "win", r.self, r.exc, r.code, r.ret, resp)
    /\ UNCHANGED <<active, last>>

\* start_game that fetches the identity page before it resolves the language.
StartCall_FetchesFirst(t, language) ==
    /\ pc[t] = "idle"
    /\ LET region == get_region(language)
       IN /\ Enter(t, language)
          /\ self' = IF region.exc = NoExc
                     THEN [self EXCEPT !.server = Some(region.host)]
                     ELSE self
          /\ Send(t, "info", GAME_PAGE, 1)
          /\ UNCHANGED <<active, last>>

\* start_game, lines 103-104 and _get_session_info up to its request (line 74).
StartCall(t, language) ==
    /\ pc[t] = "idle"
    /\ LET region == get_region(language)
       IN IF region.exc # NoExc
          THEN Refuse(t, "start_game", region.exc, language)
          ELSE /\ Enter(t, language)
               /\ self' = [self EXCEPT !.server = Some(region.host)]
               /\ Send(t, "info", GAME_PAGE, 1)
               /\ UNCHANGED <<active, last>>

\* _get_session_info, lines 75-77, and start_game up to its request (line 107).
InfoResponse(t, page) ==
    /\ pc[t] = "info"
    /\ IF page.status = "failure"
       THEN Finish(t, "start_game", self, "TransportFailure", Missing, None, NoResponse)
       ELSE IF page.status = "nomatch"
       THEN Finish(t, "start_game", self, "AttributeError", Missing, None, NoResponse)
       ELSE /\ self' = [self EXCEPT !.uid = Some(page.uid),
                                    !.frontaddr = Some(page.frontaddr)]
            /\ Send(t, "new_session", NEW_SESSION_URL(self'), 2)
            /\ UNCHANGED <<pre, arg, result>>
    /\ UNCHANGED <<active, last>>

\* The part of start_game after resp = await w.json() (lines 110-114).
StartResult(s, resp) ==
    IF resp.status = "failure" THEN [self |-> s, exc |-> "TransportFailure", code |-> Missing]
    ELSE IF resp.completion = Missing THEN [self |-> s, exc |-> "KeyError", code |-> Missing]
    ELSE IF resp.completion = OK
         THEN LET u == _update(s, resp, TRUE)
              IN [self |-> u.self, exc |-> u.exc, code |-> Missing]
         ELSE LET e == raise_connection_error(resp.completion)
              IN [self |-> s, exc |-> e.exc, code |-> e.code]

\* start_game, lines 108-114.
NewSessionResponse(t, resp) ==
    /\ pc[t] = "new_session"
    /\ LET r == StartResult(self, resp)
       IN /\ Finish(t, "start_game", r.self, r.exc, r.code,
                    IF r.exc = NoExc THEN r.self.question ELSE None, resp)
          /\ active' = (active \/ r.exc = NoExc)
          /\ last' = IF r.exc = NoExc THEN Started(r.self) ELSE last

\* One call of task t, or one step of its call in flight.
Step(t) ==
    \/ \E l \in Languages : StartCall(t, l)
    \/ \E p \in GamePages : InfoResponse(t, p)
    \/ \E r \in NewSessionResponses : NewSessionResponse(t, r)
    \/ \E a \in IntAnswers : AnswerCall(t, [type |-> "int", v |-> a])
    \/ \E a \in StrAnswers : AnswerCall(t, [type |-> "str", v |-> a])
    \/ \E r \in AnswerResponses : AnswerResponse(t, r)
    \/ BackCall(t)
    \/ \E r \in AnswerResponses : BackResponse(t, r)
    \/ WinCall(t)
    \/ \E r \in WinResponses : WinResponse(t, r)
    \/ Return(t)

\* The task that owns the object when calls are made one at a time.
Owner == 1

Next == Step(Owner)

Spec == Init /\ [][Next]_vars

(***************************************************************************)
(* Several tasks answer on one open session.  Nothing in answer waits for  *)
(* another call: the event loop may run any task that is not suspended,    *)
(* and deliver the response of any request in flight.                      *)
(***************************************************************************)
\* The object after start_game() has returned the first question.
Opened ==
    _update([NewAkinator EXCEPT !.server = Some(get_region(None).host),
                                !.uid = Some("U1"), !.frontaddr = Some("F1")],
            Document(OK, Dec(42), Dec(99), Txt("Is it a human?"), Dec(0), Dec(0), <<>>),
            TRUE).self

\* The answers the tasks give, and what the server replies to them: the next
\* question at some step, or a rejection.
OverlapIntAnswers == {0}
OverlapStrAnswers == {"Probably Not"}

OverlapResponses ==
    {d \in AnswerResponses :
        /\ d.status = "document"
        /\ d.completion = OK
        /\ d.question = Txt("Is it male?")
        /\ d.progression = Frac(105)
        /\ Raises("int", d.step) = NoExc
        /\ PyInt(d.step) >= 0}
    \cup {Document(Txt("KO - TIMEOUT"), Missing, Missing, Missing, Missing, Missing, <<>>)}

InitOverlap ==
    /\ self = Opened
    /\ pc = [t \in Tasks |-> "idle"]
    /\ req = [t \in Tasks |-> NoRequest]
    /\ pre = [t \in Tasks |-> None]
    /\ nreq = [t \in Tasks |-> 0]
    /\ arg = [t \in Tasks |-> None]
    /\ result = [t \in Tasks |-> NoOutcome]
    /\ active = TRUE
    /\ last = Started(Opened)

NextOverlap ==
    \E t \in Tasks :
        \/ \E a \in OverlapIntAnswers : AnswerCall(t, [type |-> "int", v |-> a])
        \/ \E a \in OverlapStrAnswers : AnswerCall(t, [type |-> "str", v |-> a])
        \/ \E r \in OverlapResponses : AnswerResponse(t, r)
        \/ Return(t)

SpecOverlap == InitOverlap /\ [][NextOverlap]_vars

(***************************************************************************)
(* Properties.                                                             *)
(***************************************************************************)
\* The question, the progression and the step of an object.
Triple(s) == <<s.question, s.progression, s.step>>

\* The triple a document carries, when all three of its fields convert.
CarriesTriple(resp) ==
    /\ Raises("str", resp.question) = NoExc
    /\ Raises("float", resp.progression) = NoExc
    /\ Raises("int", resp.step) = NoExc

CarriedTriple(resp) ==
    <<Some(PyStr(resp.question)), Some(PyFloat(resp.progression)), Some(PyInt(resp.step))>>

\* Task t's call has ended and was a call of one of ops.
Ended(t, ops) == pc[t] = "done" /\ result[t].op \in ops

\* The server answered task t's call with a completion that is not OK.
Rejected(t) ==
    /\ result[t].resp.status = "document"
    /\ result[t].resp.completion \notin {OK, Missing}

\* C1: on an open session, when the server answers answer, back or win with
\* a completion c other than OK, the call fails reporting exactly c and the
\* object is as it was before the call.
C1_RejectionKeepsState ==
    \A t \in Tasks :
        (active /\ Ended(t, {"answer", "back", "win"}) /\ Rejected(t))
        => /\ result[t].exc = "ServerRejected"
           /\ result[t].code = result[t].resp.completion
           /\ self = pre[t][1]

C1_Witness ==
    /\ active
    /\ Ended(Owner, {"answer"})
    /\ result[Owner].resp.completion = Txt("KO - TIMEOUT")
    /\ result[Owner].code = Txt("KO - TIMEOUT")
    /\ self.step = Some(1)

\* C2: after any answer or back call on an open session has ended, whatever
\* the response, the triple (question, progression, step) is entirely the
\* one before the call or entirely the one the response carries.
C2_TripleAtomic ==
    \A t \in Tasks :
        (active /\ Ended(t, {"answer", "back"}))
        => \/ Triple(self) = Triple(pre[t][1])
           \/ /\ CarriesTriple(result[t].resp)
              /\ Triple(self) = CarriedTriple(result[t].resp)

\* C3: before any start_game has succeeded, answer with a valid token and
\* win fail with NotBootstrapped, issue no request and leave the object alone.
C3_NotBootstrapped ==
    \A t \in Tasks :
        ~active
        => /\ pc[t] \notin {"answer", "win"}
           /\ (Ended(t, {"answer", "win"})
                 /\ result[t].exc \notin {"InvalidAnswer", "NameError"})
              => /\ result[t].exc = "NotBootstrapped"
                 /\ nreq[t] = 0
                 /\ self = pre[t][1]

\* C4: back on an open session whose step is 0 fails with
\* CantGoBackAnyFurther, issues no request and leaves the object alone.
C4_BackAtStepZero ==
    \A t \in Tasks :
        /\ (active /\ pc[t] = "back") => pre[t][1].step # Some(0)
        /\ (active /\ Ended(t, {"back"}) /\ pre[t][1].step = Some(0))
           => /\ result[t].exc = "CantGoBackAnyFurther"
              /\ nreq[t] = 0
              /\ req[t] = NoRequest
              /\ self = pre[t][1]

C4_Witness ==
    /\ active
    /\ Ended(Owner, {"back"})
    /\ pre[Owner][1].step = Some(0)
    /\ result[Owner].exc = "CantGoBackAnyFurther"

\* Task t's call started on an open session whose step was greater than 0.
OpenAndPositive(t) ==
    /\ active
    /\ pre[t][1].step # None
    /\ pre[t][1].step[1] > 0

\* C5: back issues a request only on an open session with step > 0; in
\* every other state it fails with CantGoBackAnyFurther without a request.
C5_BackOnlyWhenPositive ==
    \A t \in Tasks :
        /\ pc[t] = "back" => OpenAndPositive(t)
        /\ (Ended(t, {"back"}) /\ ~OpenAndPositive(t))
           => /\ result[t].exc = "CantGoBackAnyFurther"
              /\ nreq[t] = 0

\* An integer answer outside 0..4.
OutOfRange(a) == a # None /\ a[1].type = "int" /\ (a[1].v < 0 \/ a[1].v > 4)

\* C6: answer with an integer outside 0..4 fails with InvalidAnswer, issues
\* no request and leaves the object alone.
C6_InvalidAnswer ==
    \A t \in Tasks :
        /\ pc[t] = "answer" => ~OutOfRange(arg[t])
        /\ (Ended(t, {"answer"}) /\ OutOfRange(arg[t]))
           => /\ result[t].exc = "InvalidAnswer"
              /\ nreq[t] = 0
              /\ self = pre[t][1]

\* The attributes other than question, progression and step.
OtherFields ==
    {"server", "session", "signature", "uid", "frontaddr", "name", "description", "picture"}

\* C7: a successful answer or back changes nothing but question, progression
\* and step, and no answer, back or win call changes server, session or
\* signature.
C7_OnlyTripleChanges ==
    \A t \in Tasks :
        /\ (Ended(t, {"answer", "back"}) /\ result[t].exc = NoExc)
           => \A f \in OtherFields : self[f] = pre[t][1][f]
        /\ Ended(t, {"answer", "back", "win"})
           => \A f \in {"server", "session", "signature"} : self[f] = pre[t][1][f]

C7_Witness ==
    /\ active
    /\ Ended(Owner, {"answer"})
    /\ result[Owner].exc = NoExc
    /\ Triple(self) # Triple(pre[Owner][1])
    /\ self.session = Some(43)
    /\ self.step = Some(1)

\* C8: session and signature change only in a start_game call that
\* succeeds; no answer, back or win call and no failed start_game changes
\* either of them.
C8_IdentificationOnlyBySuccess ==
    \A t \in Tasks :
        (pc[t] = "done" /\ ~(result[t].op = "start_game" /\ result[t].exc = NoExc))
        => /\ self.session = pre[t][1].session
           /\ self.signature = pre[t][1].signature

\* C9: a start_game call that fails (the identity page not fetched or
\* without the tokens, the server's rejection, a transport failure), on a
\* new object or on an open session, leaves the object as it was before the
\* call; in particular server is not changed.
C9_FailedStartKeepsState ==
    \A t \in Tasks :
        (Ended(t, {"start_game"})
           /\ result[t].exc \in {"TransportFailure", "AttributeError", "ServerRejected"})
        => /\ self.server = pre[t][1].server
           /\ self = pre[t][1]

\* C10: win never changes question, progression or step, whether it succeeds
\* or fails; a caller may guess again straight after a guess, and that
\* request carries the same step as the one before.
C10_StateKept ==
    \A t \in Tasks :
        /\ Ended(t, {"win"}) => /\ Triple(self) = Triple(pre[t][1])
                                /\ req[t].step = FmtInt(self.step)
        /\ Ended(t, {"win"}) => ENABLED WinCall(t)

C10_SameStepAgain ==
    \A t \in Tasks :
        (Ended(t, {"win"}) /\ pc'[t] = "win") => req'[t].step = req[t].step

C10_GuessKeepsStep == []C10_StateKept /\ [][C10_SameStepAgain]_vars

C10_Witness ==
    /\ active
    /\ Ended(Owner, {"win"})
    /\ result[Owner].exc = NoExc
    /\ pre[Owner][1].name # None
    /\ self.step = Some(1)
    /\ req[Owner].step = Dec(1)

\* The languages get_region resolves and the answers answer accepts, among
\* those the callers pass.
Resolvable(language) == language \in {None, Some("fr")}

ValidToken(a) ==
    \/ a.type = "int" /\ a.v \in 0..4
    \/ a.type = "str" /\ a.v \in {"yes", "Y", "Probably Not"}

\* Task t's start_game ended at the identity page: no document came back.
EndedAtIdentityPage(t) ==
    /\ Ended(t, {"start_game"})
    /\ result[t].exc \in {"TransportFailure", "AttributeError"}
    /\ result[t].resp = NoResponse

\* C11 (as stated): every call of start_game, answer, back or win that passes
\* its local validation issues exactly one request, and every call that
\* fails it issues none.
C11_ExactlyOneRequest ==
    \A t \in Tasks :
        /\ pc[t] \notin {"idle", "done"} => nreq[t] = 1
        /\ Ended(t, {"answer"}) => nreq[t] = IF ValidToken(arg[t][1]) THEN 1 ELSE 0
        /\ Ended(t, {"back"}) => nreq[t] = IF pre[t][1].step = Some(0) THEN 0 ELSE 1
        /\ Ended(t, {"win"}) => nreq[t] = 1
        /\ Ended(t, {"start_game"}) => nreq[t] = IF Resolvable(arg[t]) THEN 1 ELSE 0

\* C11 (amended): answer, back and win issue exactly one request, or none
\* when the answer is not a valid token or back is called at step 0;
\* start_game issues none when the language is unknown, otherwise the fetch
\* of the identity page and, only when that page yields the two tokens, one
\* session-creation request after it; no handler of a response of answer,
\* back, win or session creation issues a further request.
C11_RequestCount ==
    \A t \in Tasks :
        /\ pc[t] \in {"answer", "back", "win"} => nreq[t] = 1
        /\ pc[t] = "info" => nreq[t] = 1 /\ req[t] = GAME_PAGE
        /\ pc[t] = "new_session" => nreq[t] = 2 /\ req[t].url = "NEW_SESSION_URL"
        /\ Ended(t, {"answer"}) => nreq[t] = IF ValidToken(arg[t][1]) THEN 1 ELSE 0
        /\ Ended(t, {"back"}) => nreq[t] = IF pre[t][1].step = Some(0) THEN 0 ELSE 1
        /\ Ended(t, {"win"}) => nreq[t] = 1
        /\ Ended(t, {"start_game"})
           => nreq[t] = IF ~Resolvable(arg[t]) THEN 0
                        ELSE IF EndedAtIdentityPage(t) THEN 1 ELSE 2

C11_NoRetry ==
    \A t \in Tasks :
        pc[t] \in {"answer", "back", "win", "new_session"}
        => /\ pc'[t] \in {pc[t], "done"}
           /\ nreq'[t] = nreq[t]
           /\ req'[t] = req[t]

C11_Requests == []C11_RequestCount /\ [][C11_NoRetry]_vars

C11_Witness ==
    /\ Ended(Owner, {"start_game"})
    /\ result[Owner].exc = NoExc
    /\ arg[Owner] = Some("fr")
    /\ nreq[Owner] = 2
    /\ req[Owner].url = "NEW_SESSION_URL"

\* A session-creation document with completion OK whose five fields convert.
WellFormedSession(resp) ==
    /\ resp.completion = OK
    /\ Raises("int", resp.session) = NoExc
    /\ Raises("int", resp.signature) = NoExc
    /\ CarriesTriple(resp)

\* C12: when the session-creation response has completion OK, start_game
\* sets session, signature, question, progression and step from it, opens
\* the session and returns the first question; with any other completion,
\* or with a field missing or malformed, it fails with the server's
\* rejection carrying the reported code.
C12_BootstrapOutcome ==
    \A t \in Tasks :
        (Ended(t, {"start_game"}) /\ result[t].resp.status = "document"
           /\ result[t].resp.completion # Missing)
        => LET resp == result[t].resp
           IN IF WellFormedSession(resp)
              THEN /\ result[t].exc = NoExc
                   /\ self.session = Some(PyInt(resp.session))
                   /\ self.signature = Some(PyInt(resp.signature))
                   /\ Triple(self) = CarriedTriple(resp)
                   /\ result[t].ret = Some(PyStr(resp.question))
                   /\ active
              ELSE /\ result[t].exc = "ServerRejected"
                   /\ result[t].code = resp.completion

\* The canonical id of a valid token: the integer itself, 0 for the
\* synonyms of yes, 4 for those of probably not.
CanonicalId(a) ==
    IF a.type = "int" THEN a.v
    ELSE IF a.v \in {"yes", "Y"} THEN 0 ELSE 4

\* C13: the request of an answer call with a valid token (an integer 0..4 or
\* a synonym in any letter case) carries the token's canonical id next to
\* the object's server, session, signature and step, so tokens with the same
\* id give the same request.
C13_CanonicalAnswerId ==
    \A t \in Tasks :
        ((pc[t] = "answer" \/ Ended(t, {"answer"})) /\ ValidToken(arg[t][1]))
        => req[t] = Request("ANSWER_URL", FmtStr(pre[t][1].server),
                            FmtInt(pre[t][1].session), FmtInt(pre[t][1].signature),
                            FmtInt(pre[t][1].step), Dec(CanonicalId(arg[t][1])))

C13_Witness ==
    /\ active
    /\ pc[Owner] = "answer"
    /\ arg[Owner][1].type = "str"
    /\ arg[Owner][1].v = "Probably Not"
    /\ req[Owner].answer = Dec(4)
    /\ req[Owner].step = Dec(1)

\* A candidate that has the three fields win stores.
Complete(e) ==
    /\ e.name # Missing
    /\ e.description # Missing
    /\ e.absolute_picture_path # Missing

\* The guess list of a document with completion OK is not empty and its
\* first candidate is complete.
CarriesGuess(resp) ==
    /\ resp.status = "document"
    /\ resp.completion = OK
    /\ resp.elements # <<>>
    /\ Complete(resp.elements[1])

\* C14: a win call that succeeds has taken the first candidate of the list,
\* stored its name, description and picture path in the object and returned
\* the candidate as it came, the fields win does not store included; and win
\* succeeds whenever the first candidate is complete.
C14_FirstCandidate ==
    \A t \in Tasks :
        Ended(t, {"win"})
        => /\ CarriesGuess(result[t].resp) <=> result[t].exc = NoExc
           /\ result[t].exc = NoExc
              => LET first == result[t].resp.elements[1]
                 IN /\ self.name = Some(first.name)
                    /\ self.description = Some(first.description)
                    /\ self.picture = Some(first.absolute_picture_path)
                    /\ result[t].ret = Some(first)
                    /\ result[t].ret[1].ranking = Txt("1")

C14_Witness ==
    /\ active
    /\ Ended(Owner, {"win"})
    /\ result[Owner].exc = NoExc
    /\ result[Owner].resp.elements = <<Turing, Lovelace>>
    /\ self.name = Some(Txt("Alan Turing"))
    /\ result[Owner].ret = Some(Turing)

\* C15: start_game with a language that cannot be resolved fails with
\* UnknownRegion without having issued a request, neither the fetch of the
\* identity page nor the session creation, and leaves the object, server
\* included, as it was.
C15_UnknownRegion ==
    \A t \in Tasks :
        /\ pc[t] \in {"info", "new_session"} => Resolvable(arg[t])
        /\ (Ended(t, {"start_game"}) /\ ~Resolvable(arg[t]))
           => /\ result[t].exc = "UnknownRegion"
              /\ nreq[t] = 0
              /\ req[t] = NoRequest
              /\ self.server = pre[t][1].server
              /\ self = pre[t][1]

C15_Witness ==
    /\ active
    /\ Ended(Owner, {"start_game"})
    /\ arg[Owner] = Some("xx")
    /\ result[Owner].exc = "UnknownRegion"
    /\ self.server = Some("srv13.akinator.com")

\* C16: when the identity page cannot be fetched or lacks the two tokens,
\* start_game fails with IdentityFetchFailed and never issues the
\* session-creation request; that request is issued only after the identity
\* fetch of the same call has succeeded, and carries the two tokens fetched.
C16_IdentityFetch ==
    \A t \in Tasks :
        /\ (Ended(t, {"start_game"}) /\ req[t] = GAME_PAGE)
           => /\ result[t].exc = "IdentityFetchFailed"
              /\ nreq[t] = 1
        /\ (pc[t] = "new_session" \/ (Ended(t, {"start_game"}) /\ nreq[t] = 2))
           => /\ req[t].url = "NEW_SESSION_URL"
              /\ req[t].session = Txt("U1")
              /\ req[t].signature = Txt("F1")

\* C17: when calls are made one at a time, every request of answer, back
\* and win on an open session carries the server, session and signature of
\* the latest start_game that succeeded and the step of the latest response
\* of start_game, answer or back that succeeded; an answer that succeeds
\* returns the question of its response.
C17_RequestsCarrySession ==
    \A t \in Tasks :
        /\ (active /\ pc[t] \in {"answer", "back", "win"})
           => /\ req[t].server = FmtStr(last[1].server)
              /\ req[t].session = FmtInt(last[1].session)
              /\ req[t].signature = FmtInt(last[1].signature)
              /\ req[t].step = FmtInt(last[1].step)
        /\ (active /\ Ended(t, {"answer"}) /\ result[t].exc = NoExc)
           => result[t].ret = Some(PyStr(result[t].resp.question))

\* C18: back on an open session at step k > 0 sends its request with step k
\* itself and answer -1, and when it succeeds the question, the progression
\* and the step are those of the response, whatever step the response
\* reports.
C18_BackSendsCurrentStep ==
    \A t \in Tasks :
        /\ ((pc[t] = "back" \/ Ended(t, {"back"})) /\ OpenAndPositive(t))
           => /\ req[t].url = "BACK_URL"
              /\ req[t].step = Dec(pre[t][1].step[1])
              /\ req[t].answer = Dec(-1)
        /\ (Ended(t, {"back"}) /\ OpenAndPositive(t) /\ result[t].exc = NoExc)
           => /\ CarriesTriple(result[t].resp)
              /\ Triple(self) = CarriedTriple(result[t].resp)

C18_Witness ==
    /\ Ended(Owner, {"back"})
    /\ OpenAndPositive(Owner)
    /\ result[Owner].exc = NoExc
    /\ pre[Owner][1].step = Some(1)
    /\ req[Owner].step = Dec(1)
    /\ result[Owner].resp.step = Dec(1)
    /\ self.step = Some(1)
    /\ self.question # pre[Owner][1].question

\* The guess the object holds, and the candidates a response can carry.
LastGuess(s) == <<s.name, s.description, s.picture>>

NoGuess == <<None, None, None>>

Candidates == {Turing, Lovelace}

\* C20: the stored guess is unset until a win call has succeeded, is changed
\* by no call of start_game, answer or back, and its name, description and
\* picture are always those of one and the same candidate, also after a win
\* response whose first candidate lacks one of the three.
C20_LastGuessOfOneRecord ==
    /\ \/ LastGuess(self) = NoGuess
       \/ \E e \in Candidates :
            /\ Complete(e)
            /\ LastGuess(self) = <<Some(e.name), Some(e.description),
                                   Some(e.absolute_picture_path)>>
    /\ \A t \in Tasks :
        /\ Ended(t, {"start_game", "answer", "back"})
           => LastGuess(self) = LastGuess(pre[t][1])
        /\ (Ended(t, {"win"}) /\ result[t].exc # NoExc /\ LastGuess(pre[t][1]) = NoGuess)
           => LastGuess(self) = NoGuess

\* C19: nothing in answer keeps two calls on one object apart.  A task that
\* is not in a call can always issue its answer request, also while the
\* answer of another task is in flight; a request issued while another is in
\* flight and before any response has been applied carries the same step as
\* that one; and each response that succeeds overwrites question,
\* progression and step with its own, so the last one applied stays.
C19_CallAlwaysPossible ==
    \A t \in Tasks :
        pc[t] = "idle" => ENABLED AnswerCall(t, [type |-> "int", v |-> 0])

C19_SameStep ==
    \A t \in Tasks : \A u \in Tasks \ {t} :
        (pc[t] = "answer" /\ self = pre[t][1] /\ pc[u] = "idle" /\ pc'[u] = "answer")
        => /\ req'[u].step = req[t].step
           /\ pc'[t] = "answer"
           /\ self' = self

C19_LastResponseWins ==
    \A t \in Tasks :
        (pc[t] = "answer" /\ pc'[t] = "done" /\ result'[t].exc = NoExc)
        => Triple(self') = CarriedTriple(result'[t].resp)

C19_OverlappingAnswers ==
    []C19_CallAlwaysPossible /\ [][C19_SameStep /\ C19_LastResponseWins]_vars

C19_Witness ==
    /\ Ended(1, {"answer"})
    /\ Ended(2, {"answer"})
    /\ result[1].exc = NoExc
    /\ result[2].exc = NoExc
    /\ pre[1] = pre[2]
    /\ req[1].step = req[2].step
    /\ CarriedTriple(result[1].resp) # CarriedTriple(result[2].resp)
    /\ Triple(self) = CarriedTriple(result[2].resp)
    /\ self.step = Some(0)

====
